---- MODULE Spec2Model ----
(***************************************************************************)
(* Model of cameraCapture1camA.py: the session loop of the main thread,    *)
(* the camCapture thread and the saveImage thread of every trial, the two  *)
(* queue.Queue objects of every trial and the camera they share.           *)
(*                                                                         *)
(* A frame is represented by the capture index k it was retrieved under.   *)
(* Time is abstracted: a bounded GetNextImage(CAM_TIMEOUT) that finds no   *)
(* image may time out, an unbounded GetNextImage() never does.             *)
(***************************************************************************)
EXTENDS Integers, Sequences, FiniteSets, TLC

\* ------------------------------------------------------------------ bounds
FRAMES_TO_RECORD == 2
TRIALS_TO_RECORD == 2
MaxTriggers == 4

Trials == 0 .. (TRIALS_TO_RECORD - 1)
None == -1

VARIABLES
    pcMain,            \* position of the main thread (source line reached)
    j,                 \* trial index of the for loop at line 196
    i,                 \* frame index of the for loop at line 211
    tEnd,              \* the global flag written by camCapture
    tStart,            \* TRUE once line 225 has bound the name tStart
    dequeuedAcq1,      \* the frame held by the main thread between 228 and 231
    writer1,           \* per trial: "unopened", "open" or "closed"
    cam1Queue,         \* per trial: the items of cam1Queue
    imageWriteQueue1,  \* per trial: the items of imageWriteQueue1
    unfinished,        \* per trial: imageWriteQueue1.unfinished_tasks
    camPc,             \* per trial: position of the camCapture thread
    k,                 \* per trial: the frame counter of camCapture
    camExit,           \* per trial: why camCapture left its loop
    savePc,            \* per trial: position of the saveImage thread
    dequeuedImage,     \* per trial: the item saveImage holds
    streaming,         \* camera is between BeginAcquisition and EndAcquisition
    avail,             \* images waiting in the camera buffer
    triggers,          \* triggers the DAQ has sent so far
    put1,              \* per trial: every frame camCapture put on cam1Queue
    relayed,           \* per trial: every frame the main loop put on imageWriteQueue1
    written,           \* per trial: every frame passed to writer.writeFrame
    outcome,           \* per trial: the way the trial ended
    interrupted,       \* TRUE once the except clause at line 248 has run
    unreleased         \* per trial: camera buffers camCapture holds unreleased

vars == << pcMain, j, i, tEnd, tStart, dequeuedAcq1, writer1, cam1Queue,
           imageWriteQueue1, unfinished, camPc, k, camExit, savePc,
           dequeuedImage, streaming, avail, triggers, put1, relayed,
           written, outcome, interrupted, unreleased >>

mainVars == << pcMain, j, i, tStart, dequeuedAcq1, interrupted >>
camVars  == << camPc, k, camExit, unreleased >>
saveVars == << savePc, dequeuedImage >>
devVars  == << streaming, avail, triggers >>

\* ------------------------------------------------------------ queue.Queue
\* variant of QFront that hands out the newest item instead of the oldest
QFrontNewest(q) == q[Len(q)]
QFront(q) == Head(q)
QRest(q) == Tail(q)
QPut(q, x) == Append(q, x)
QEmpty(q) == Len(q) = 0
\* variant of JoinReturns that does not wait for task_done
JoinReturnsAtOnce(u) == u >= 0
\* Queue.join() returns when unfinished_tasks has dropped to zero
JoinReturns(u) == u = 0

\* variant of NextTrial that runs the following trial under the same index
NextTrialSameIndex(jj) == jj
\* line 196: the for loop gives the following trial the next index
NextTrial(jj) == jj + 1

\* variant of BoundedWait that uses the bounded wait for every retrieval
BoundedWaitAlways(kk) == kk >= 0
\* line 149: every retrieval but the first (k == 0) waits at most CAM_TIMEOUT
BoundedWait(kk) == kk # 0

\* variant of Release that leaves the buffer with the thread
ReleaseNothing(n) == n
\* line 161: image.Release() hands one buffer back to the camera
Release(n) == n - 1

IsPrefix(s, t) == Len(s) <= Len(t) /\ \A n \in 1 .. Len(s) : s[n] = t[n]

\* str(n): the decimal digits of n, most significant first
RECURSIVE str(_)
str(n) == IF n < 10 THEN << n >> ELSE Append(str(n \div 10), n % 10)
\* line 198: mouseStr and dateStr are fixed for the session, only str(j) varies
movieName1(jj) == [root |-> "mouseStr_dateStr_bottom_", index |-> str(jj), ext |-> ".mp4"]

\* ------------------------------------------------------------------- Init
Init ==
    /\ pcMain = "L196"
    /\ j = 0
    /\ i = 0
    /\ tEnd = 0
    /\ tStart = FALSE
    /\ dequeuedAcq1 = None
    /\ writer1 = [t \in Trials |-> "unopened"]
    /\ cam1Queue = [t \in Trials |-> << >>]
    /\ imageWriteQueue1 = [t \in Trials |-> << >>]
    /\ unfinished = [t \in Trials |-> 0]
    /\ camPc = [t \in Trials |-> "none"]
    /\ k = [t \in Trials |-> 0]
    /\ camExit = [t \in Trials |-> "none"]
    /\ savePc = [t \in Trials |-> "none"]
    /\ dequeuedImage = [t \in Trials |-> None]
    /\ streaming = FALSE
    /\ avail = 0
    /\ triggers = 0
    /\ put1 = [t \in Trials |-> << >>]
    /\ relayed = [t \in Trials |-> << >>]
    /\ written = [t \in Trials |-> << >>]
    /\ outcome = [t \in Trials |-> "none"]
    /\ interrupted = FALSE
    /\ unreleased = [t \in Trials |-> 0]

\* ------------------------------------------------------------ main thread
\* lines 196-206: next trial; writer and queues created, save thread started
OpenTrial ==
    /\ pcMain = "L196"
    /\ j < TRIALS_TO_RECORD
    /\ i' = 0
    /\ writer1' = [writer1 EXCEPT ![j] = "open"]
    /\ savePc' = [savePc EXCEPT ![j] = "get"]
    /\ pcMain' = "L207"
    /\ UNCHANGED interrupted
    /\ UNCHANGED << j, tEnd, tStart, dequeuedAcq1, cam1Queue, imageWriteQueue1,
                    unfinished, camVars, dequeuedImage, devVars, put1, relayed,
                    written, outcome >>

\* line 196: range(TRIALS_TO_RECORD) is exhausted, control leaves the try
TrialsExhausted ==
    /\ pcMain = "L196"
    /\ j = TRIALS_TO_RECORD
    /\ pcMain' = "L252"
    /\ UNCHANGED interrupted
    /\ UNCHANGED << j, i, tEnd, tStart, dequeuedAcq1, writer1, cam1Queue,
                    imageWriteQueue1, unfinished, camVars, saveVars, devVars,
                    put1, relayed, written, outcome >>

\* line 207: cam1.BeginAcquisition(); on a camera that is already streaming
\* the driver either raises (the exception is not a KeyboardInterrupt, the
\* main thread dies) or ignores the call
BeginAcquisition ==
    /\ pcMain = "L207"
    /\ \E raises \in (IF streaming THEN BOOLEAN ELSE {FALSE}) :
          pcMain' = IF raises THEN "crashed" ELSE "L208"
    /\ streaming' = TRUE
    /\ UNCHANGED interrupted
    /\ UNCHANGED << j, i, tEnd, tStart, dequeuedAcq1, writer1, cam1Queue,
                    imageWriteQueue1, unfinished, camVars, saveVars, avail,
                    triggers, put1, relayed, written, outcome >>

\* line 208: cam1Thread.start(), the thread starts with k = i = 0
StartCamThread ==
    /\ pcMain = "L208"
    /\ camPc' = [camPc EXCEPT ![j] = "next"]
    /\ k' = [k EXCEPT ![j] = i]
    /\ pcMain' = "L209"
    /\ UNCHANGED interrupted
    /\ UNCHANGED << j, i, tEnd, tStart, dequeuedAcq1, writer1, cam1Queue,
                    imageWriteQueue1, unfinished, camExit, unreleased, saveVars,
                    devVars, put1, relayed, written, outcome >>

\* line 209: tEnd = 0
ResetTEnd ==
    /\ pcMain = "L209"
    /\ tEnd' = 0
    /\ pcMain' = "L211"
    /\ UNCHANGED interrupted
    /\ UNCHANGED << j, i, tStart, dequeuedAcq1, writer1, cam1Queue,
                    imageWriteQueue1, unfinished, camVars, saveVars, devVars,
                    put1, relayed, written, outcome >>

\* line 211: for i in range(FRAMES_TO_RECORD); when the range is exhausted
\* (lines 242-244 ran in the last iteration) the next trial begins
ForFrame ==
    /\ pcMain = "L211"
    /\ IF i < FRAMES_TO_RECORD
         THEN /\ pcMain' = "L213"
              /\ UNCHANGED << j, outcome >>
         ELSE /\ pcMain' = "L196"
              /\ j' = NextTrial(j)
              /\ outcome' = [outcome EXCEPT ![j] = "Completed"]
    /\ UNCHANGED interrupted
    /\ UNCHANGED << i, tEnd, tStart, dequeuedAcq1, writer1, cam1Queue,
                    imageWriteQueue1, unfinished, camVars, saveVars, devVars,
                    put1, relayed, written >>

\* line 213: while cam1Queue.empty()
PollQueue ==
    /\ pcMain = "L213"
    /\ pcMain' = IF QEmpty(cam1Queue[j]) THEN "L215" ELSE "L218"
    /\ UNCHANGED interrupted
    /\ UNCHANGED << j, i, tEnd, tStart, dequeuedAcq1, writer1, cam1Queue,
                    imageWriteQueue1, unfinished, camVars, saveVars, devVars,
                    put1, relayed, written, outcome >>

\* variant of PollSleep that leaves the polling loop after one sleep
PollSleepOnce ==
    /\ pcMain = "L215"
    /\ pcMain' = "L218"
    /\ UNCHANGED interrupted
    /\ UNCHANGED << j, i, tEnd, tStart, dequeuedAcq1, writer1, cam1Queue,
                    imageWriteQueue1, unfinished, camVars, saveVars, devVars,
                    put1, relayed, written, outcome >>

\* lines 214-216: time.sleep(WAIT_TIME); if tEnd == 1: break
PollSleep ==
    /\ pcMain = "L215"
    /\ pcMain' = IF tEnd = 1 THEN "L218" ELSE "L213"
    /\ UNCHANGED interrupted
    /\ UNCHANGED << j, i, tEnd, tStart, dequeuedAcq1, writer1, cam1Queue,
                    imageWriteQueue1, unfinished, camVars, saveVars, devVars,
                    put1, relayed, written, outcome >>

\* lines 218, 224-226: if tEnd == 1 take the timeout branch, else go on to
\* the get; tStart is bound in the first iteration
CheckTEnd ==
    /\ pcMain = "L218"
    /\ IF tEnd = 1
         THEN pcMain' = "L219" /\ UNCHANGED tStart
         ELSE pcMain' = "L228" /\ tStart' = (tStart \/ i = 0)
    /\ UNCHANGED interrupted
    /\ UNCHANGED << j, i, tEnd, dequeuedAcq1, writer1, cam1Queue,
                    imageWriteQueue1, unfinished, camVars, saveVars, devVars,
                    put1, relayed, written, outcome >>

\* line 219: cam1.EndAcquisition() in the timeout branch
EndAcquisitionTimeout ==
    /\ pcMain = "L219"
    /\ \E raises \in (IF streaming THEN {FALSE} ELSE BOOLEAN) :
          pcMain' = IF raises THEN "crashed" ELSE "L220"
    /\ streaming' = FALSE
    /\ avail' = 0
    /\ UNCHANGED interrupted
    /\ UNCHANGED << j, i, tEnd, tStart, dequeuedAcq1, writer1, cam1Queue,
                    imageWriteQueue1, unfinished, camVars, saveVars, triggers,
                    put1, relayed, written, outcome >>

\* line 220: imageWriteQueue1.join()
JoinWriteQueue ==
    /\ pcMain = "L220"
    /\ JoinReturns(unfinished[j])
    /\ pcMain' = "L221"
    /\ UNCHANGED interrupted
    /\ UNCHANGED << j, i, tEnd, tStart, dequeuedAcq1, writer1, cam1Queue,
                    imageWriteQueue1, unfinished, camVars, saveVars, devVars,
                    put1, relayed, written, outcome >>

\* lines 221-222: writer1.close(); break
CloseWriter ==
    /\ pcMain = "L221"
    /\ writer1' = [writer1 EXCEPT ![j] = "closed"]
    /\ outcome' = [outcome EXCEPT ![j] = "TimedOut"]
    /\ j' = NextTrial(j)
    /\ pcMain' = "L196"
    /\ UNCHANGED interrupted
    /\ UNCHANGED << i, tEnd, tStart, dequeuedAcq1, cam1Queue, imageWriteQueue1,
                    unfinished, camVars, saveVars, devVars, put1, relayed,
                    written >>

\* line 228: dequeuedAcq1 = cam1Queue.get(), blocks while the queue is empty
GetFrame ==
    /\ pcMain = "L228"
    /\ ~QEmpty(cam1Queue[j])
    /\ dequeuedAcq1' = QFront(cam1Queue[j])
    /\ cam1Queue' = [cam1Queue EXCEPT ![j] = QRest(cam1Queue[j])]
    /\ pcMain' = "L231"
    /\ UNCHANGED interrupted
    /\ UNCHANGED << j, i, tEnd, tStart, writer1, imageWriteQueue1, unfinished,
                    camVars, saveVars, devVars, put1, relayed, written,
                    outcome >>

\* lines 231-244: imageWriteQueue1.put(dequeuedAcq1), display, next iteration
PutFrame ==
    /\ pcMain = "L231"
    /\ imageWriteQueue1' =
          [imageWriteQueue1 EXCEPT ![j] = QPut(imageWriteQueue1[j], dequeuedAcq1)]
    /\ unfinished' = [unfinished EXCEPT ![j] = unfinished[j] + 1]
    /\ relayed' = [relayed EXCEPT ![j] = Append(relayed[j], dequeuedAcq1)]
    /\ i' = i + 1
    /\ pcMain' = "L211"
    /\ UNCHANGED interrupted
    /\ UNCHANGED << j, tEnd, tStart, dequeuedAcq1, writer1, cam1Queue, camVars,
                    saveVars, devVars, put1, written, outcome >>

\* the positions of the main thread inside the try block (lines 193-244)
TryPcs == { "L196", "L207", "L208", "L209", "L211", "L213", "L215", "L218",
            "L219", "L220", "L221", "L228", "L231" }

\* variant of ExceptTarget for a handler placed inside the trial loop
ExceptTargetInLoop == "L196"
\* lines 248-252: the except clause sits after the trial loop, control goes
\* on with the statement at line 252
ExceptTarget == "L252"

\* lines 248-250: Ctrl-C anywhere inside the try block
KeyboardInterrupt ==
    /\ pcMain \in TryPcs
    /\ pcMain' = ExceptTarget
    /\ interrupted' = TRUE
    /\ outcome' = IF j \in Trials /\ writer1[j] = "open"
                    THEN [outcome EXCEPT ![j] = "Cancelled"]
                    ELSE outcome
    /\ UNCHANGED << j, i, tEnd, tStart, dequeuedAcq1, writer1, cam1Queue,
                    imageWriteQueue1, unfinished, camVars, saveVars, devVars,
                    put1, relayed, written >>

\* line 252: cam1.EndAcquisition() after the loop; on a camera that is not
\* streaming the driver either raises or ignores the call
EndAcquisitionFinal ==
    /\ pcMain = "L252"
    /\ \E raises \in (IF streaming THEN {FALSE} ELSE BOOLEAN) :
          pcMain' = IF raises THEN "crashed" ELSE "L254"
    /\ streaming' = FALSE
    /\ avail' = 0
    /\ UNCHANGED interrupted
    /\ UNCHANGED << j, i, tEnd, tStart, dequeuedAcq1, writer1, cam1Queue,
                    imageWriteQueue1, unfinished, camVars, saveVars, triggers,
                    put1, relayed, written, outcome >>

\* lines 253-264: the print at 254 reads tStart (NameError when line 225
\* never ran), then the window, the camera and the system are released
Teardown ==
    /\ pcMain = "L254"
    /\ pcMain' = IF tStart THEN "done" ELSE "crashed"
    /\ UNCHANGED interrupted
    /\ UNCHANGED << j, i, tEnd, tStart, dequeuedAcq1, writer1, cam1Queue,
                    imageWriteQueue1, unfinished, camVars, saveVars, devVars,
                    put1, relayed, written, outcome >>

\* ----------------------------------------------------------------- camera
\* the DAQ sends a trigger; a streaming camera exposes and buffers an image
Trigger ==
    /\ streaming
    /\ triggers < MaxTriggers
    /\ triggers' = triggers + 1
    /\ avail' = avail + 1
    /\ UNCHANGED << mainVars, tEnd, writer1, cam1Queue, imageWriteQueue1,
                    unfinished, camVars, saveVars, streaming, put1, relayed,
                    written, outcome >>

\* ------------------------------------------------------ camCapture thread
\* lines 150 / 153: GetNextImage returns an image
GetNextImage(t) ==
    /\ camPc[t] = "next"
    /\ streaming
    /\ avail > 0
    /\ avail' = avail - 1
    /\ camPc' = [camPc EXCEPT ![t] = "L159"]
    /\ unreleased' = [unreleased EXCEPT ![t] = unreleased[t] + 1]
    /\ UNCHANGED << mainVars, tEnd, writer1, cam1Queue, imageWriteQueue1,
                    unfinished, k, camExit, saveVars, streaming, triggers,
                    put1, relayed, written, outcome >>

\* lines 153-158: GetNextImage(CAM_TIMEOUT) finds no image and raises
GetNextImageTimeout(t) ==
    /\ camPc[t] = "next"
    /\ BoundedWait(k[t])
    /\ ~(streaming /\ avail > 0)
    /\ tEnd' = 1
    /\ camPc' = [camPc EXCEPT ![t] = "exited"]
    /\ camExit' = [camExit EXCEPT ![t] = "timeout"]
    /\ UNCHANGED << mainVars, writer1, cam1Queue, imageWriteQueue1, unfinished,
                    k, unreleased, saveVars, devVars, put1, relayed, written,
                    outcome >>

\* lines 150 / 153-158: GetNextImage raises an error that is not a timeout;
\* for k == 0 nothing catches it, for k > 0 the bare except does
GetNextImageFault(t) ==
    /\ camPc[t] = "next"
    /\ IF ~BoundedWait(k[t])
         THEN /\ camPc' = [camPc EXCEPT ![t] = "crashed"]
              /\ UNCHANGED tEnd
         ELSE /\ camPc' = [camPc EXCEPT ![t] = "exited"]
              /\ tEnd' = 1
    /\ camExit' = [camExit EXCEPT ![t] = "fault"]
    /\ UNCHANGED << mainVars, writer1, cam1Queue, imageWriteQueue1, unfinished,
                    k, unreleased, saveVars, devVars, put1, relayed, written,
                    outcome >>

\* lines 159-160: convert the image and camQueue.put(npImage)
CamPut(t) ==
    /\ camPc[t] = "L159"
    /\ cam1Queue' = [cam1Queue EXCEPT ![t] = QPut(cam1Queue[t], k[t])]
    /\ put1' = [put1 EXCEPT ![t] = Append(put1[t], k[t])]
    /\ camPc' = [camPc EXCEPT ![t] = "L161"]
    /\ UNCHANGED << mainVars, tEnd, writer1, imageWriteQueue1, unfinished, k,
                    camExit, unreleased, saveVars, devVars, relayed, written,
                    outcome >>

\* lines 161-162: image.Release(); k = k + 1
CamRelease(t) ==
    /\ camPc[t] = "L161"
    /\ unreleased' = [unreleased EXCEPT ![t] = Release(unreleased[t])]
    /\ k' = [k EXCEPT ![t] = k[t] + 1]
    /\ camPc' = [camPc EXCEPT ![t] = "next"]
    /\ UNCHANGED << mainVars, tEnd, writer1, cam1Queue, imageWriteQueue1,
                    unfinished, camExit, saveVars, devVars, put1, relayed,
                    written, outcome >>

\* ------------------------------------------------------- saveImage thread
\* lines 139-141: dequeuedImage = imageWriteQueue.get(); None ends the loop
SaveGet(t) ==
    /\ savePc[t] = "get"
    /\ ~QEmpty(imageWriteQueue1[t])
    /\ dequeuedImage' = [dequeuedImage EXCEPT ![t] = QFront(imageWriteQueue1[t])]
    /\ imageWriteQueue1' =
          [imageWriteQueue1 EXCEPT ![t] = QRest(imageWriteQueue1[t])]
    /\ savePc' = [savePc EXCEPT ![t] =
                     IF QFront(imageWriteQueue1[t]) = None THEN "exited" ELSE "L143"]
    /\ UNCHANGED << mainVars, tEnd, writer1, cam1Queue, unfinished, camVars,
                    devVars, put1, relayed, written, outcome >>

\* line 143: writer.writeFrame(dequeuedImage); the encoder may fail, the
\* exception ends the thread
SaveWriteFrame(t) ==
    /\ savePc[t] = "L143"
    /\ written' = [written EXCEPT ![t] = Append(written[t], dequeuedImage[t])]
    /\ \E fails \in BOOLEAN :
          savePc' = [savePc EXCEPT ![t] = IF fails THEN "crashed" ELSE "L144"]
    /\ UNCHANGED << mainVars, tEnd, writer1, cam1Queue, imageWriteQueue1,
                    unfinished, camVars, dequeuedImage, devVars, put1, relayed,
                    outcome >>

\* line 144: imageWriteQueue.task_done()
SaveTaskDone(t) ==
    /\ savePc[t] = "L144"
    /\ unfinished' = [unfinished EXCEPT ![t] = unfinished[t] - 1]
    /\ savePc' = [savePc EXCEPT ![t] = "get"]
    /\ UNCHANGED << mainVars, tEnd, writer1, cam1Queue, imageWriteQueue1,
                    camVars, dequeuedImage, devVars, put1, relayed, written,
                    outcome >>

\* ------------------------------------------------------------------- Next
MainStep ==
    \/ OpenTrial
    \/ TrialsExhausted
    \/ BeginAcquisition
    \/ StartCamThread
    \/ ResetTEnd
    \/ ForFrame
    \/ PollQueue
    \/ PollSleep
    \/ CheckTEnd
    \/ EndAcquisitionTimeout
    \/ JoinWriteQueue
    \/ CloseWriter
    \/ GetFrame
    \/ PutFrame
    \/ EndAcquisitionFinal
    \/ Teardown

Next ==
    \/ MainStep
    \/ KeyboardInterrupt
    \/ Trigger
    \/ \E t \in Trials : GetNextImage(t)
    \/ \E t \in Trials : GetNextImageTimeout(t)
    \/ \E t \in Trials : GetNextImageFault(t)
    \/ \E t \in Trials : CamPut(t)
    \/ \E t \in Trials : CamRelease(t)
    \/ \E t \in Trials : SaveGet(t)
    \/ \E t \in Trials : SaveWriteFrame(t)
    \/ \E t \in Trials : SaveTaskDone(t)

Spec == Init /\ [][Next]_vars

\* the scheduler runs every thread that can take a step; a bounded
\* GetNextImage returns or times out; the operator, the DAQ and faults are
\* under no obligation
FairSpec ==
    /\ Spec
    /\ WF_vars(MainStep)
    /\ \A t \in Trials :
          /\ WF_vars(GetNextImage(t))
          /\ WF_vars(GetNextImageTimeout(t))
          /\ WF_vars(CamPut(t))
          /\ WF_vars(CamRelease(t))
          /\ WF_vars(SaveGet(t))
          /\ WF_vars(SaveWriteFrame(t))
          /\ WF_vars(SaveTaskDone(t))

\* ------------------------------------------------------------- properties
\* a thread object that was started and has neither returned nor died
CamAlive(t) == camPc[t] \in { "next", "L159", "L161" }
SaveAlive(t) == savePc[t] \in { "get", "L143", "L144" }
\* the frames 0 .. n-1 in capture order
FirstFrames(n) == [m \in 1 .. n |-> m - 1]

\* C1: a trial that ended through the timeout branch after its own capture
\* thread timed out has passed to writeFrame exactly the frames that thread
\* retrieved, none left behind and none twice.
C1_TimedOutWritesAllRetrieved ==
    \A t \in Trials :
        (outcome[t] = "TimedOut" /\ camExit[t] = "timeout") => written[t] = put1[t]

\* C2: a trial whose capture thread got at least FRAMES_TO_RECORD frames ends
\* as Completed with exactly the frames 0 .. FRAMES_TO_RECORD-1 handed to the
\* writer queue, never as a timed-out trial.
C2_DeliveredMeansCompleted ==
    \A t \in Trials :
        (outcome[t] \in { "Completed", "TimedOut" } /\ Len(put1[t]) >= FRAMES_TO_RECORD)
            => /\ outcome[t] = "Completed"
               /\ relayed[t] = FirstFrames(FRAMES_TO_RECORD)
               /\ IsPrefix(written[t], relayed[t])

\* C3: the frames written are a prefix of the frames put on imageWriteQueue1,
\* which are a prefix of the frames put on cam1Queue, in every state.
C3_OrderPreserved ==
    \A t \in Trials : IsPrefix(written[t], relayed[t]) /\ IsPrefix(relayed[t], put1[t])

C3_Witness ==
    \E t \in Trials : Len(written[t]) >= 2 /\ Len(put1[t]) > Len(written[t])

\* C4: once writer1.close() has been called for a trial, every frame put on
\* its imageWriteQueue1 has been passed to writeFrame, and this stays so: no
\* frame is put or written afterwards.
C4_CloseIsBarrier ==
    \A t \in Trials :
        writer1[t] = "closed" =>
            /\ written[t] = relayed[t]
            /\ QEmpty(imageWriteQueue1[t])
            /\ savePc[t] # "L143"

C4_Witness ==
    \E t \in Trials : writer1[t] = "closed" /\ Len(relayed[t]) >= 1

\* C5: every trial's imageWriteQueue1 receives the sentinel None as its last
\* item and its saveImage thread exits; stated at the end of the run: once
\* the main thread has finished its teardown and the capture thread of trial
\* t is gone, nothing is left that could still put the sentinel, so the save
\* thread of trial t has exited or finds None at the end of its queue.
C5_SentinelDelivered ==
    \A t \in Trials :
        (pcMain = "done" /\ savePc[t] # "none" /\ ~CamAlive(t))
            => \/ savePc[t] = "exited"
               \/ /\ ~QEmpty(imageWriteQueue1[t])
                  /\ imageWriteQueue1[t][Len(imageWriteQueue1[t])] = None

\* C6: when the program has run its teardown, every writer that was opened
\* has been closed.
C6_WritersClosedAtExit ==
    pcMain = "done" => \A t \in Trials : writer1[t] # "open"

\* C7: when the program has ended after a Ctrl-C that found the trial still
\* waiting for its first frame, it ended through the teardown, with the
\* acquisition ended, the writer closed and no worker thread left running.
C7_CancelWhileWaitingFinalizes ==
    \A t \in Trials :
        ( /\ pcMain \in { "done", "crashed" }
          /\ outcome[t] = "Cancelled"
          /\ k[t] = 0
          /\ camPc[t] \in { "next", "crashed" } )
            => /\ pcMain = "done"
               /\ ~streaming
               /\ writer1[t] = "closed"
               /\ ~CamAlive(t)
               /\ ~SaveAlive(t)

\* C8: after a retrieval of trial t failed with an error that is not a
\* timeout, the main thread does not stay in the polling loop of trial t.
C8_FaultEndsPolling ==
    \A t \in Trials :
        (camExit[t] = "fault") ~> ~(j = t /\ pcMain \in { "L213", "L215" })

\* C9: after writeFrame failed in the save thread of trial t, the main thread
\* does not stay blocked in imageWriteQueue1.join() of trial t.
C9_WriteFailureEndsJoin ==
    \A t \in Trials :
        (savePc[t] = "crashed") ~> ~(j = t /\ pcMain = "L220")

\* C10: at most one camCapture thread and at most one saveImage thread are
\* alive in every state.
C10_OnePairOfWorkers ==
    /\ Cardinality({ t \in Trials : CamAlive(t) }) <= 1
    /\ Cardinality({ t \in Trials : SaveAlive(t) }) <= 1

\* the positions of the main thread inside the acquisition loop of a trial,
\* before the timeout branch is taken
AcqLoopPcs == { "L209", "L211", "L213", "L215", "L218", "L228", "L231" }

\* C11: once a KeyboardInterrupt has been caught, the main thread never
\* re-enters the trial loop: no writer is opened, no capture or save thread
\* is started and the camera is not put into streaming again.
C11_NoTrialAfterInterrupt ==
    [][interrupted =>
          /\ pcMain' \notin TryPcs
          /\ writer1' = writer1
          /\ \A t \in Trials : camPc[t] = "none" => camPc'[t] = "none"
          /\ \A t \in Trials : savePc[t] = "none" => savePc'[t] = "none"
          /\ streaming' => streaming]_vars

C11_Witness ==
    interrupted /\ pcMain = "done" /\ j = 0 /\ writer1[TRIALS_TO_RECORD - 1] = "unopened"

\* C12: a capture thread leaves its loop through the except clause (timeout,
\* tEnd set to 1) only after it has retrieved and queued at least one frame:
\* the retrieval with k == 0 never times out.
C12_TimeoutOnlyAfterFirstFrame ==
    \A t \in Trials :
        (camExit[t] = "timeout" \/ camPc[t] = "exited")
            => (k[t] >= 1 /\ Len(put1[t]) >= 1)

C12_Witness ==
    \E t \in Trials : camExit[t] = "timeout" /\ tEnd = 1 /\ k[t] = 1

\* C13: a trial is only opened under an index below TRIALS_TO_RECORD whose
\* file has not been opened before, the index moves on by exactly one when a
\* trial ends (Completed or TimedOut alike) and never otherwise, and the
\* files opened so far all have different names.
C13_TrialIndexAdvances ==
    [][/\ (pcMain = "L196" /\ pcMain' = "L207")
            => (j < TRIALS_TO_RECORD /\ writer1[j] = "unopened" /\ j' = j)
       /\ (pcMain \in { "L211", "L221" } /\ pcMain' = "L196") => j' = j + 1
       /\ (j' = j \/ (j' = j + 1 /\ pcMain' = "L196"))
       /\ \A a, b \in Trials :
             (a # b /\ writer1'[a] # "unopened" /\ writer1'[b] # "unopened")
                 => movieName1(a) # movieName1(b)]_vars

C13_Witness ==
    j = TRIALS_TO_RECORD /\ outcome[0] = "TimedOut" /\ writer1[TRIALS_TO_RECORD - 1] # "unopened"

\* C14: a capture thread never retrieves more than FRAMES_TO_RECORD frames
\* and is no longer running once its trial is Completed.
C14_CaptureStopsAtTarget ==
    \A t \in Trials :
        /\ k[t] + unreleased[t] <= FRAMES_TO_RECORD
        /\ outcome[t] = "Completed" => ~CamAlive(t)

\* C15: BeginAcquisition is only called on a camera that is not streaming and
\* EndAcquisition only on a camera that is streaming.
C15_BeginEndAlternate ==
    /\ pcMain = "L207" => ~streaming
    /\ pcMain \in { "L219", "L252" } => streaming

\* C16: when the main thread is about to call EndAcquisition, no capture
\* thread is inside its retrieval loop.
C16_NoCaptureDuringEnd ==
    pcMain \in { "L219", "L252" } => \A t \in Trials : ~CamAlive(t)

\* C17: a capture thread holds at most one unreleased camera buffer, holds
\* one exactly between a successful GetNextImage and image.Release(), has
\* put the frame on the queue before it releases, and has released every
\* earlier image before it retrieves the next one or exits.
C17_ReleasedExactlyOnce ==
    \A t \in Trials :
        /\ unreleased[t] \in { 0, 1 }
        /\ unreleased[t] = 1 <=> camPc[t] \in { "L159", "L161" }
        /\ camPc[t] = "L161" => Len(put1[t]) = k[t] + 1
        /\ camPc[t] \in { "next", "L159", "exited", "crashed" } => Len(put1[t]) = k[t]

C17_Witness ==
    \E t \in Trials : k[t] >= 2 /\ camPc[t] = "next" /\ unreleased[t] = 0

\* C18: whenever the main thread is at cam1Queue.get() (line 228), the
\* cam1Queue of the current trial holds at least one frame.
C18_GetNeverBlocks ==
    pcMain = "L228" => ~QEmpty(cam1Queue[j])

C18_Witness ==
    pcMain = "L231" /\ dequeuedAcq1 = 1 /\ tEnd = 1

\* C19: after the capture thread of trial t has timed out, the main thread
\* does not stay in the acquisition loop of trial t.
C19_TimeoutObserved ==
    \A t \in Trials :
        (camExit[t] = "timeout") ~> ~(j = t /\ pcMain \in AcqLoopPcs)

\* C20: whenever the main thread takes the tEnd == 1 branch in a trial, the
\* capture thread of that same trial has left its loop through the except
\* clause.
C20_TEndIsOwnTrial ==
    pcMain = "L219" => camPc[j] = "exited"

====
